---- MODULE Spec2Model ----
(***************************************************************************)
(* A model of eda_simplifier/simplify.py: dataset_overview, numeric,       *)
(* categorical_plot, all_distributions and _ambiguous_columns_split.       *)
(*                                                                         *)
(* The state is the caller's environment (the dataset object and the       *)
(* arguments it passes) together with the operation last called and its    *)
(* outcome.  Every library function is one action that runs the whole      *)
(* function body; Return discards the outcome so another call can follow.  *)
(***************************************************************************)
EXTENDS Integers, Sequences, FiniteSets, TLC

VARIABLES df, target, ambiguous_column_types, categorical_target,
          max_categories, categorical_features, op, outcome

vars == <<df, target, ambiguous_column_types, categorical_target,
          max_categories, categorical_features, op, outcome>>

inputs == <<target, ambiguous_column_types, categorical_target,
            max_categories, categorical_features>>

(***************************************************************************)
(* Bounds of the model.                                                    *)
(***************************************************************************)
MaxCols == 2

MaxRows == 2

\* Default of max_categories (categorical_plot and all_distributions).
DefaultMaxCategories == 10

(***************************************************************************)
(* Generic helpers.                                                        *)
(***************************************************************************)
Range(s) == {s[i] : i \in DOMAIN s}

Min(a, b) == IF a <= b THEN a ELSE b

\* All enumerations (orders) of a finite set, as sequences without repeats.
Perms(S) ==
    {s \in [1..Cardinality(S) -> S] : \A i, j \in DOMAIN s : i # j => s[i] # s[j]}

\* The subsequence of s holding the elements that are in S, in s's order.
RECURSIVE Keep(_, _)
Keep(s, S) ==
    IF s = <<>> THEN <<>>
    ELSE IF Head(s) \in S THEN <<Head(s)>> \o Keep(Tail(s), S)
         ELSE Keep(Tail(s), S)

(***************************************************************************)
(* Values of the program.                                                  *)
(*                                                                         *)
(* A DataFrame is [kind, columns, dtypes, rows]: the ordered column        *)
(* labels, the dtype of each column (by its str() name) and the rows, each *)
(* a function from column label to cell value.  NaN is the missing marker. *)
(* Any other Python object is a record with another kind.                  *)
(***************************************************************************)
NaN == "NaN"

NameSeq == <<"track_id", "genre", "popularity", "rank", "year">>

\* A name that is never a column of a dataset.
Ghost == "nonexistent_col"

ColumnNames(n) == SubSeq(NameSeq, 1, n)

\* The names a caller may mention: every possible column and the ghost.
NamePool == Range(ColumnNames(MaxCols)) \cup {Ghost}

PoolSeq == ColumnNames(MaxCols) \o <<Ghost>>

Dtypes ==
    {"int64", "float64", "complex128", "bool", "object", "datetime64[ns]", "category"}

DataFrame(cols, dt, rows) ==
    [kind |-> "DataFrame", columns |-> cols, dtypes |-> dt, rows |-> rows]

NoneObj == [kind |-> "NoneType"]

StrObj == [kind |-> "str"]

\* A Python str used as a column label or target, and an int used as one.
Str(s) == [type |-> "str", val |-> s]

IntLabel == [type |-> "int", val |-> "7"]

None == [kind |-> "None"]

List(items) == [kind |-> "list", items |-> items]

Tuple(items) == [kind |-> "tuple", items |-> items]

Dict(num, cat) == [kind |-> "dict", numeric |-> num, categorical |-> cat]

\* isinstance(x, pd.DataFrame)
IsDataFrame(x) == x.kind = "DataFrame"

\* isinstance(x, str)
IsStr(x) == x.type = "str"

\* isinstance(x, list)
IsList(x) == x.kind = "list"

ColSet(d) == Range(d.columns)

\* label in df.columns
InColumns(label, d) == IsStr(label) /\ label.val \in ColSet(d)

\* DataFrame.empty: some axis has length 0.
empty(d) == Len(d.columns) = 0 \/ Len(d.rows) = 0

\* DataFrame.shape: (rows, columns).
shape(d) == <<Len(d.rows), Len(d.columns)>>

\* df[labels] for a list of labels that are all columns: a new DataFrame.
Subset(d, cols) ==
    DataFrame(cols,
              [c \in Range(cols) |-> d.dtypes[c]],
              [i \in DOMAIN d.rows |-> [c \in Range(cols) |-> d.rows[i][c]]])

\* df[df[c].isin(values)]: the rows whose cell of column c is one of values,
\* in order: a new DataFrame.
RECURSIVE RowsIsin(_, _, _)
RowsIsin(rows, c, values) ==
    IF rows = <<>> THEN <<>>
    ELSE IF Head(rows)[c] \in values
         THEN <<Head(rows)>> \o RowsIsin(Tail(rows), c, values)
         ELSE RowsIsin(Tail(rows), c, values)

EmptyDict == [c \in {} |-> 0]

\* df.isna().sum(): the number of missing cells of column c.
MissingCount(d, c) == Cardinality({i \in DOMAIN d.rows : d.rows[i][c] = NaN})

(***************************************************************************)
(* Outcomes of a call.                                                     *)
(***************************************************************************)
NoError == [type |-> "", msg |-> ""]

Returned(v) ==
    [raised |-> FALSE, error |-> NoError, value |-> v, steps |-> <<>>]

Raised(type, msg) ==
    [raised |-> TRUE, error |-> [type |-> type, msg |-> msg], value |-> <<>>,
     steps |-> <<>>]

NoOutcome == Returned(<<>>)

EmptyMsg == "Input DataFrame cannot be empty"

ConflictMsg == "Column(s) cannot be both 'numeric' and 'categorical'"

(***************************************************************************)
(* select_dtypes(include="number") / select_dtypes(exclude="number").      *)
(* pandas selects the dtypes that are subclasses of numpy.number: the      *)
(* integer, floating-point and complex kinds.  numpy.bool_ is not one.     *)
(***************************************************************************)
IsNumberWithBool(dtype) == dtype \in {"int64", "float64", "complex128", "bool"}

IsNumber(dtype) == dtype \in {"int64", "float64", "complex128"}

select_dtypes_include(d) ==
    Subset(d, Keep(d.columns, {c \in ColSet(d) : IsNumber(d.dtypes[c])}))

select_dtypes_exclude(d) ==
    Subset(d, Keep(d.columns, {c \in ColSet(d) : ~IsNumber(d.dtypes[c])}))

(***************************************************************************)
(* dataset_overview                                                        *)
(***************************************************************************)
\* Series.describe(): only its count (the non-missing cells) is modelled.
numeric_cols_of(d) == ColSet(select_dtypes_include(d))

describe(d, c) == [count |-> Len(d.rows) - MissingCount(d, c)]

summary_statistics_with_bool(d) ==
    LET numeric_df ==
            Subset(d, Keep(d.columns,
                           {c \in ColSet(d) : IsNumberWithBool(d.dtypes[c])}))
    IN  IF empty(numeric_df) THEN EmptyDict
        ELSE [c \in ColSet(numeric_df) |-> describe(numeric_df, c)]

summary_statistics(d) ==
    LET numeric_df == select_dtypes_include(d)
    IN  IF empty(numeric_df) THEN EmptyDict
        ELSE [c \in ColSet(numeric_df) |-> describe(numeric_df, c)]

dataset_overview_numeric_dtypes(x) ==
    IF ~IsDataFrame(x) THEN Raised("TypeError", "Input must be a pandas DataFrame")
    ELSE Returned([shape |-> shape(x),
                   columns |-> x.columns,
                   dtypes |-> [c \in numeric_cols_of(x) |-> x.dtypes[c]],
                   missing_values |-> [c \in ColSet(x) |-> MissingCount(x, c)],
                   summary_statistics |-> summary_statistics(x)])

dataset_overview(x) ==
    IF ~IsDataFrame(x) THEN Raised("TypeError", "Input must be a pandas DataFrame")
    ELSE Returned([shape |-> shape(x),
                   columns |-> x.columns,
                   dtypes |-> [c \in ColSet(x) |-> x.dtypes[c]],
                   missing_values |-> [c \in ColSet(x) |-> MissingCount(x, c)],
                   summary_statistics |-> summary_statistics(x)])

(***************************************************************************)
(* _ambiguous_columns_split                                                *)
(***************************************************************************)
\* ambiguous_column_types defaults to two empty lists.
default_types(act) == IF act.kind = "None" THEN Dict(<<>>, <<>>) ELSE act

ambiguously_numeric_unsanitized(d, act) == Range(default_types(act).numeric)

ambiguously_numeric(d, act) == Range(default_types(act).numeric) \cap ColSet(d)

ambiguously_categorical(d, act) ==
    Range(default_types(act).categorical) \cap ColSet(d)

overlap_unsanitized(d, act) ==
    Range(default_types(act).numeric) \cap Range(default_types(act).categorical)

overlap(d, act) == ambiguously_numeric(d, act) \cap ambiguously_categorical(d, act)

numeric_cols(d) == ColSet(select_dtypes_include(d))

categorical_cols(d) == ColSet(select_dtypes_exclude(d))

numeric_overriden_keep(d, act) ==
    numeric_cols(d) \cup ambiguously_numeric(d, act)

numeric_overriden(d, act) ==
    (numeric_cols(d) \cup ambiguously_numeric(d, act)) \ ambiguously_categorical(d, act)

categorical_overriden_keep(d, act) ==
    categorical_cols(d) \cup ambiguously_categorical(d, act)

categorical_overriden(d, act) ==
    (categorical_cols(d) \cup ambiguously_categorical(d, act))
        \ ambiguously_numeric(d, act)

\* The label sets after the target is added to both.
numeric_labels(d, t, act) == {Str(c) : c \in numeric_overriden(d, act)} \cup {t}

categorical_labels_no_target(d, t, act) ==
    {Str(c) : c \in categorical_overriden(d, act)}

categorical_labels(d, t, act) ==
    {Str(c) : c \in categorical_overriden(d, act)} \cup {t}

\* pd_dataframe[list(labels)]: a KeyError when a label is no column; else a
\* new DataFrame whose column order is the iteration order of the set, which
\* Python leaves unspecified.
LabelsFound(d, labels) == \A l \in labels : InColumns(l, d)

Views(d, labels) == {Subset(d, cols) : cols \in Perms({l.val : l \in labels})}

ambiguous_columns_split_conflict_first(d, t, act) ==
    IF ~IsDataFrame(d)
    THEN {Raised("AttributeError", "object has no attribute 'empty'")}
    ELSE IF overlap(d, act) # {} THEN {Raised("ValueError", ConflictMsg)}
    ELSE IF empty(d) THEN {Raised("ValueError", EmptyMsg)}
    ELSE IF ~LabelsFound(d, numeric_labels(d, t, act))
            \/ ~LabelsFound(d, categorical_labels(d, t, act))
         THEN {Raised("KeyError", "not in index")}
    ELSE {Returned([numeric |-> n, categorical |-> c]) :
             n \in Views(d, numeric_labels(d, t, act)),
             c \in Views(d, categorical_labels(d, t, act))}

ambiguous_columns_split_skip_missing(d, t, act) ==
    IF ~IsDataFrame(d)
    THEN {Raised("AttributeError", "object has no attribute 'empty'")}
    ELSE IF empty(d) THEN {Raised("ValueError", EmptyMsg)}
    ELSE IF overlap(d, act) # {} THEN {Raised("ValueError", ConflictMsg)}
    ELSE {Returned([numeric |-> n, categorical |-> c]) :
             n \in Views(d, {l \in numeric_labels(d, t, act) : InColumns(l, d)}),
             c \in Views(d, {l \in categorical_labels(d, t, act) :
                                InColumns(l, d)})}

ambiguous_columns_split(d, t, act) ==
    IF ~IsDataFrame(d)
    THEN {Raised("AttributeError", "object has no attribute 'empty'")}
    ELSE IF empty(d) THEN {Raised("ValueError", EmptyMsg)}
    ELSE IF overlap(d, act) # {} THEN {Raised("ValueError", ConflictMsg)}
    ELSE IF ~LabelsFound(d, numeric_labels(d, t, act))
            \/ ~LabelsFound(d, categorical_labels(d, t, act))
         THEN {Raised("KeyError", "not in index")}
    ELSE {Returned([numeric |-> n, categorical |-> c]) :
             n \in Views(d, numeric_labels(d, t, act)),
             c \in Views(d, categorical_labels(d, t, act))}

(***************************************************************************)
(* numeric                                                                 *)
(***************************************************************************)
feature_cols(d, t) == Keep(d.columns, ColSet(d) \ {t.val})

\* df[feature_cols].corr() converts every feature column to floating point.
\* Integer, floating-point, complex and boolean columns convert, and so does
\* any column without values.  For a text, categorical or date/time column
\* with values the result depends on the values and on the pandas release:
\* the column is dropped or converted, or the conversion raises.
corr_errors(d, fc) ==
    {Raised("ValueError", "could not convert string to float") :
        c \in {c \in Range(fc) :
                 /\ d.dtypes[c] \in {"object", "category"}
                 /\ \E i \in DOMAIN d.rows : d.rows[i][c] # NaN}}
    \cup
    {Raised("TypeError", "cannot cast to dtype float64") :
        c \in {c \in Range(fc) :
                 /\ d.dtypes[c] = "datetime64[ns]"
                 /\ \E i \in DOMAIN d.rows : d.rows[i][c] # NaN}}

numeric_result(d, t) ==
    LET fc == feature_cols(d, t)
    IN  [missing_vals |->
             [mark |-> "bar",
              data |-> [c \in ColSet(d) |-> MissingCount(d, c)]],
         box_plot |-> [mark |-> "boxplot", data |-> Subset(d, fc)],
         distribution |->
             [i \in DOMAIN fc |-> [mark |-> "bar", x |-> fc[i], data |-> d]],
         correlation |->
             [mark |-> "rect+text", data |-> Range(fc) \X Range(fc)]]

numeric_rejects_no_rows(d, t) ==
    IF ~IsDataFrame(d) THEN {Raised("TypeError", "df must be a pandas DataFrame")}
    ELSE IF ~IsStr(t) THEN {Raised("TypeError", "target must be a string")}
    ELSE IF ~InColumns(t, d)
         THEN {Raised("ValueError", "target not found in DataFrame")}
    ELSE IF Len(d.rows) = 0 THEN {Raised("ValueError", "df must not be empty")}
    ELSE corr_errors(d, feature_cols(d, t)) \cup {Returned(numeric_result(d, t))}

numeric_value_check_first(d, t) ==
    IF ~IsDataFrame(d) THEN {Raised("TypeError", "df must be a pandas DataFrame")}
    ELSE IF ~InColumns(t, d)
         THEN {Raised("ValueError", "target not found in DataFrame")}
    ELSE IF ~IsStr(t) THEN {Raised("TypeError", "target must be a string")}
    ELSE corr_errors(d, feature_cols(d, t)) \cup {Returned(numeric_result(d, t))}

\* Every outcome the call can have.
numeric(d, t) ==
    IF ~IsDataFrame(d) THEN {Raised("TypeError", "df must be a pandas DataFrame")}
    ELSE IF ~IsStr(t) THEN {Raised("TypeError", "target must be a string")}
    ELSE IF ~InColumns(t, d)
         THEN {Raised("ValueError", "target not found in DataFrame")}
    ELSE corr_errors(d, feature_cols(d, t)) \cup {Returned(numeric_result(d, t))}

(***************************************************************************)
(* categorical_plot                                                        *)
(***************************************************************************)
\* df[feature].value_counts(): the count of each non-missing value.
value_counts(d, feature) ==
    LET present == {d.rows[i][feature] : i \in DOMAIN d.rows} \ {NaN}
    IN  [v \in present |->
            Cardinality({i \in DOMAIN d.rows : d.rows[i][feature] = v})]

\* .nlargest(max_categories).index.tolist(): the values with the n largest
\* counts.  Which of several equally frequent values is kept depends on the
\* order value_counts gives them, so every choice that respects the counts
\* is a possible result.
top_features(d, feature, n) ==
    LET vc == value_counts(d, feature)
        k  == Min(n, Cardinality(DOMAIN vc))
    IN  {S \in SUBSET DOMAIN vc :
            /\ Cardinality(S) = k
            /\ \A a \in S, b \in (DOMAIN vc) \ S : vc[a] >= vc[b]}

\* df = df[df[feature].isin(top_features)].copy(): the local df of the loop.
filtered(d, feature, top) ==
    DataFrame(d.columns, d.dtypes, RowsIsin(d.rows, feature, top))

bar_chart(d, feature) ==
    [mark |-> "bar", y |-> feature, x |-> "count()", color |-> "", data |-> d]

vs_target_always_box(d, feature, t, ct) ==
    [mark |-> "boxplot", y |-> feature, x |-> t.val, color |-> feature,
     data |-> d]

vs_target(d, feature, t, ct) ==
    IF ct
    THEN [mark |-> "bar", y |-> feature, x |-> "count()", color |-> t.val, data |-> d]
    ELSE [mark |-> "boxplot", y |-> feature, x |-> t.val, color |-> feature,
          data |-> d]

\* The loop over categorical_features, from feature i on, with local df d:
\* every list of plots it can append.
RECURSIVE plot_loop(_, _, _, _, _, _)
plot_loop(d, features, i, t, ct, maxc) ==
    IF i > Len(features) THEN {<<>>}
    ELSE UNION {
           LET d2 == filtered(d, features[i], top)
           IN  {<<bar_chart(d2, features[i]), vs_target(d2, features[i], t, ct)>>
                    \o rest :
                    rest \in plot_loop(d2, features, i + 1, t, ct, maxc)} :
           top \in top_features(d, features[i], maxc)}

\* categorical_features after the default is applied.
default_features(d, t, cf) ==
    IF cf.kind = "None" \/ Len(cf.items) = 0
    THEN List(feature_cols(d, t))
    ELSE cf

categorical_plot_no_features_check(d, t, ct, maxc, cf) ==
    IF ~IsDataFrame(d) THEN {Raised("TypeError", "df must be a dataframe")}
    ELSE IF empty(d) THEN {Raised("ValueError", "df must not be empty")}
    ELSE IF ~IsStr(t) THEN {Raised("TypeError", "target_column must be a string")}
    ELSE IF ~InColumns(t, d)
         THEN {Raised("ValueError", "Target column not found in dataframe")}
    ELSE LET features == default_features(d, t, cf)
         IN  IF ~IsList(features)
             THEN {Raised("TypeError", "categorical_features must be a list")}
             ELSE IF \E f \in Range(features.items) : f \notin ColSet(d)
             THEN {Raised("ValueError", "Column not found in dataframe")}
             ELSE {Returned(plots) :
                      plots \in plot_loop(d, features.items, 1, t, ct, maxc)}

categorical_plot(d, t, ct, maxc, cf) ==
    IF ~IsDataFrame(d) THEN {Raised("TypeError", "df must be a dataframe")}
    ELSE IF empty(d) THEN {Raised("ValueError", "df must not be empty")}
    ELSE IF ~IsStr(t) THEN {Raised("TypeError", "target_column must be a string")}
    ELSE IF ~InColumns(t, d)
         THEN {Raised("ValueError", "Target column not found in dataframe")}
    ELSE LET features == default_features(d, t, cf)
         IN  IF ~IsList(features)
             THEN {Raised("TypeError", "categorical_features must be a list")}
             ELSE IF Len(features.items) = 0
             THEN {Raised("ValueError", "No categorical features to plot")}
             ELSE IF \E f \in Range(features.items) : f \notin ColSet(d)
             THEN {Raised("ValueError", "Column not found in dataframe")}
             ELSE {Returned(plots) :
                      plots \in plot_loop(d, features.items, 1, t, ct, maxc)}

(***************************************************************************)
(* all_distributions                                                       *)
(***************************************************************************)
Step(o, steps) == [o EXCEPT !.steps = steps]

AllSteps == <<"_ambiguous_columns_split", "numeric", "categorical_plot">>

all_distributions_plots_first(d, t, ct, maxc, cf, act) ==
    UNION {
      IF subset_df.raised
      THEN {Step(subset_df, SubSeq(AllSteps, 1, 1))}
      ELSE UNION {
             IF categorical_plots.raised
             THEN {Step(categorical_plots, <<AllSteps[1], AllSteps[3]>>)}
             ELSE {IF numeric_plots.raised
                   THEN Step(numeric_plots, <<AllSteps[1], AllSteps[3], AllSteps[2]>>)
                   ELSE Step(Returned([numeric |-> numeric_plots.value,
                                       categorical |-> categorical_plots.value]),
                             AllSteps) :
                   numeric_plots \in numeric(subset_df.value.numeric, t)} :
             categorical_plots \in
                 categorical_plot(subset_df.value.categorical, t, ct, maxc, cf)} :
      subset_df \in ambiguous_columns_split(d, t, act)}

all_distributions(d, t, ct, maxc, cf, act) ==
    UNION {
      IF subset_df.raised
      THEN {Step(subset_df, SubSeq(AllSteps, 1, 1))}
      ELSE UNION {
             IF numeric_plots.raised
             THEN {Step(numeric_plots, SubSeq(AllSteps, 1, 2))}
             ELSE {IF categorical_plots.raised
                   THEN Step(categorical_plots, AllSteps)
                   ELSE Step(Returned([numeric |-> numeric_plots.value,
                                       categorical |-> categorical_plots.value]),
                             AllSteps) :
                   categorical_plots \in
                       categorical_plot(subset_df.value.categorical, t, ct,
                                        maxc, cf)} :
             numeric_plots \in numeric(subset_df.value.numeric, t)} :
      subset_df \in ambiguous_columns_split(d, t, act)}

(***************************************************************************)
(* The caller's dataset after a call.  Every function only reads its       *)
(* argument: it indexes, selects and aggregates into new objects, and the  *)
(* one assignment to df, in the loop of categorical_plot, rebinds the      *)
(* local name to a filtered copy.                                          *)
(***************************************************************************)
dataset_overview_df_after(d, o) == d

numeric_df_after(d, o) == d

categorical_plot_df_after_inplace(d, o) ==
    IF o.raised THEN d ELSE o.value[Len(o.value)].data

categorical_plot_df_after(d, o) == d

ambiguous_columns_split_df_after(d, o) == d

all_distributions_df_after(d, o) == d

(***************************************************************************)
(* The inputs.  A dataset has the first n names as its columns, in that    *)
(* order, so the remaining names and the ghost are unknown to it.  Three   *)
(* families of calls are drawn: every dtype with default arguments, every  *)
(* override specification over two dtypes, and varied row values with      *)
(* varied plot arguments.                                                  *)
(***************************************************************************)
UniformRow(cols, v) == [c \in Range(cols) |-> v]

RowSeqs(cols, maxr, vals) ==
    UNION {[1..r -> {UniformRow(cols, v) : v \in vals}] : r \in 0..maxr}

Frames(kinds, maxr, vals) ==
    UNION {{DataFrame(ColumnNames(n), dt, rows) :
               dt \in [Range(ColumnNames(n)) -> kinds],
               rows \in RowSeqs(ColumnNames(n), maxr, vals)} :
           n \in 0..MaxCols}

StrTargets == {Str(n) : n \in NamePool}

OverrideSpecs ==
    {None} \cup {Dict(Keep(PoolSeq, A), Keep(PoolSeq, B)) :
                    A \in SUBSET NamePool, B \in SUBSET NamePool}

FeatureArgs ==
    {None, List(<<>>), Tuple(<<>>), Tuple(<<NameSeq[1]>>),
     List(<<NameSeq[1]>>), List(<<NameSeq[2]>>), List(<<Ghost>>),
     List(<<NameSeq[2], NameSeq[1]>>)}

InitKinds ==
    /\ df \in Frames(Dtypes, MaxRows, {"u"})
    /\ target \in StrTargets \cup {IntLabel}
    /\ ambiguous_column_types = None
    /\ categorical_target = FALSE
    /\ max_categories = DefaultMaxCategories
    /\ categorical_features = None

InitOverrides ==
    /\ df \in Frames({"int64", "object"}, 1, {"u"})
    /\ target \in StrTargets
    /\ ambiguous_column_types \in OverrideSpecs
    /\ categorical_target = FALSE
    /\ max_categories = DefaultMaxCategories
    /\ categorical_features = None

InitPlots ==
    /\ df \in Frames({"float64", "object"}, MaxRows, {"u", "v", NaN})
    /\ target \in StrTargets
    /\ ambiguous_column_types = None
    /\ categorical_target \in BOOLEAN
    /\ max_categories \in {1, DefaultMaxCategories}
    /\ categorical_features \in FeatureArgs

InitNotADataset ==
    /\ df \in {NoneObj, StrObj}
    /\ target \in {Str(NameSeq[1]), Str(Ghost), IntLabel}
    /\ ambiguous_column_types = None
    /\ categorical_target = FALSE
    /\ max_categories = DefaultMaxCategories
    /\ categorical_features = None

\* Rows whose cells vary from column to column, for calls of categorical_plot
\* on two text columns with the features given in either order.
MixedRowSeqs(cols, maxr, vals) ==
    UNION {[1..r -> [Range(cols) -> vals]] : r \in 0..maxr}

CapFeatureArgs ==
    {None, List(<<NameSeq[1]>>), List(<<NameSeq[2]>>),
     List(<<NameSeq[1], NameSeq[2]>>), List(<<NameSeq[2], NameSeq[1]>>)}

InitCap ==
    /\ df \in {DataFrame(ColumnNames(2), [c \in Range(ColumnNames(2)) |-> "object"],
                          rows) :
                   rows \in MixedRowSeqs(ColumnNames(2), MaxRows, {"u", "v", NaN})}
    /\ target = Str(NameSeq[1])
    /\ ambiguous_column_types = None
    /\ categorical_target \in BOOLEAN
    /\ max_categories \in {1, DefaultMaxCategories}
    /\ categorical_features \in CapFeatureArgs
    /\ op = "idle"
    /\ outcome = NoOutcome

Init ==
    /\ InitKinds \/ InitOverrides \/ InitPlots \/ InitNotADataset
    /\ op = "idle"
    /\ outcome = NoOutcome

(***************************************************************************)
(* The operations.                                                         *)
(***************************************************************************)
DatasetOverview ==
    /\ op = "idle"
    /\ op' = "dataset_overview"
    /\ outcome' = dataset_overview(df)
    /\ df' = dataset_overview_df_after(df, outcome')
    /\ UNCHANGED inputs

Numeric ==
    /\ op = "idle"
    /\ op' = "numeric"
    /\ outcome' \in numeric(df, target)
    /\ df' = numeric_df_after(df, outcome')
    /\ UNCHANGED inputs

CategoricalPlot ==
    /\ op = "idle"
    /\ op' = "categorical_plot"
    /\ outcome' \in categorical_plot(df, target, categorical_target,
                                     max_categories, categorical_features)
    /\ df' = categorical_plot_df_after(df, outcome')
    /\ UNCHANGED inputs

AmbiguousColumnsSplit ==
    /\ op = "idle"
    /\ op' = "_ambiguous_columns_split"
    /\ outcome' \in ambiguous_columns_split(df, target, ambiguous_column_types)
    /\ df' = ambiguous_columns_split_df_after(df, outcome')
    /\ UNCHANGED inputs

AllDistributions ==
    /\ op = "idle"
    /\ op' = "all_distributions"
    /\ outcome' \in all_distributions(df, target, categorical_target,
                                      max_categories, categorical_features,
                                      ambiguous_column_types)
    /\ df' = all_distributions_df_after(df, outcome')
    /\ UNCHANGED inputs

\* The caller drops the result; the next call sees the same objects.
Return ==
    /\ op # "idle"
    /\ op' = "idle"
    /\ outcome' = NoOutcome
    /\ UNCHANGED <<df, inputs>>

Next ==
    \/ DatasetOverview
    \/ Numeric
    \/ CategoricalPlot
    \/ AmbiguousColumnsSplit
    \/ AllDistributions
    \/ Return

Spec == Init /\ [][Next]_vars

\* The same calls with the arguments all_distributions hands on: the
\* override specifications and the plot arguments.
InitDistributions ==
    /\ InitOverrides \/ InitPlots
    /\ op = "idle"
    /\ outcome = NoOutcome

SpecDistributions == InitDistributions /\ [][Next]_vars

\* The same calls on the datasets with mixed rows.
SpecCap == InitCap /\ [][Next]_vars

(***************************************************************************)
(* Vocabulary of the properties, stated on the caller's inputs and on the  *)
(* outcome of the call.                                                    *)
(***************************************************************************)
SplitCalled == op = "_ambiguous_columns_split"

SplitReturned == SplitCalled /\ ~outcome.raised

NumericOut == ColSet(outcome.value.numeric)

CategoricalOut == ColSet(outcome.value.categorical)

\* The names the caller lists under "numeric" and under "categorical".
ListedNumeric ==
    IF ambiguous_column_types.kind = "None" THEN {}
    ELSE Range(ambiguous_column_types.numeric)

ListedCategorical ==
    IF ambiguous_column_types.kind = "None" THEN {}
    ELSE Range(ambiguous_column_types.categorical)

\* Some column of the dataset is listed under both.
Conflict == \E c \in ColSet(df) : c \in ListedNumeric /\ c \in ListedCategorical

\* Zero columns, or columns but zero rows.
EmptyDataset == IsDataFrame(df) /\ (Len(df.columns) = 0 \/ Len(df.rows) = 0)

NonEmptyDataset == IsDataFrame(df) /\ Len(df.columns) > 0 /\ Len(df.rows) > 0

TargetIsColumn == target.type = "str" /\ target.val \in ColSet(df)

IsError(type, msg) ==
    outcome.raised /\ outcome.error.type = type /\ outcome.error.msg = msg

\* The override specification without the name u.
Without(act, u) ==
    Dict(Keep(act.numeric, Range(act.numeric) \ {u}),
         Keep(act.categorical, Range(act.categorical) \ {u}))

\* Outcome o gives the same result as the outcome in the state: the same
\* error, or the same two column sets.
SameSplit(o) ==
    /\ o.raised = outcome.raised
    /\ o.error = outcome.error
    /\ ~o.raised =>
          /\ ColSet(o.value.numeric) = NumericOut
          /\ ColSet(o.value.categorical) = CategoricalOut

(***************************************************************************)
(* C1: on a non-empty dataset whose target is one of its columns, with     *)
(* conflict-free overrides or none, _ambiguous_columns_split returns, each *)
(* column is in exactly one of the outputs numeric and categorical, the    *)
(* target is in both, and neither output holds a name that is no column.   *)
(***************************************************************************)
C1_Partition ==
    (SplitCalled /\ NonEmptyDataset /\ TargetIsColumn /\ ~Conflict) =>
        /\ ~outcome.raised
        /\ NumericOut \subseteq ColSet(df)
        /\ CategoricalOut \subseteq ColSet(df)
        /\ Len(outcome.value.numeric.columns) = Cardinality(NumericOut)
        /\ Len(outcome.value.categorical.columns) = Cardinality(CategoricalOut)
        /\ \A c \in ColSet(df) :
              IF c = target.val
              THEN c \in NumericOut /\ c \in CategoricalOut
              ELSE (c \in NumericOut) # (c \in CategoricalOut)

\* A two-column dataset split under an override that reclassifies the
\* column that is not the target.
C1_Witness ==
    /\ SplitReturned /\ TargetIsColumn
    /\ Len(df.columns) >= 2
    /\ \E c \in ColSet(df) \ {target.val} :
          /\ c \in ListedNumeric
          /\ ~IsNumber(df.dtypes[c])
          /\ c \in NumericOut

(***************************************************************************)
(* C2: whenever _ambiguous_columns_split returns, the target is in the     *)
(* numeric and in the categorical output, whatever its dtype and whatever  *)
(* the overrides say about it.                                             *)
(***************************************************************************)
C2_TargetInBoth ==
    SplitReturned =>
        /\ target.type = "str"
        /\ target.val \in NumericOut
        /\ target.val \in CategoricalOut

\* The target is a numeric column that the overrides list as numeric only.
C2_Witness ==
    /\ SplitReturned
    /\ target.val \in ListedNumeric
    /\ target.val \notin ListedCategorical
    /\ IsNumber(df.dtypes[target.val])
    /\ target.val \in CategoricalOut

(***************************************************************************)
(* C3: with conflict-free overrides, a column listed under numeric is in   *)
(* the numeric output and a column listed under categorical is in the      *)
(* categorical output, whatever its dtype; when it is not the target it is *)
(* absent from the other output.                                           *)
(***************************************************************************)
C3_OverrideWins ==
    (SplitReturned /\ ~Conflict) =>
        \A c \in ColSet(df) :
            /\ c \in ListedNumeric =>
                  /\ c \in NumericOut
                  /\ c # target.val => c \notin CategoricalOut
            /\ c \in ListedCategorical =>
                  /\ c \in CategoricalOut
                  /\ c # target.val => c \notin NumericOut

\* A numeric column that is not the target is listed under categorical.
C3_Witness ==
    /\ SplitReturned
    /\ \E c \in ColSet(df) \ {target.val} :
          /\ c \in ListedCategorical
          /\ IsNumber(df.dtypes[c])
          /\ c \in CategoricalOut
          /\ c \notin NumericOut

(***************************************************************************)
(* C4: a name that is no column of the dataset, listed under numeric,      *)
(* under categorical or under both, changes nothing: the call ends as the  *)
(* call without that name does (the same error, or the same two column     *)
(* sets), and the name is in neither output.                               *)
(***************************************************************************)
C4_UnknownIgnored ==
    (SplitCalled /\ IsDataFrame(df) /\ ambiguous_column_types.kind = "dict") =>
        \A u \in (ListedNumeric \cup ListedCategorical) \ ColSet(df) :
            /\ \A o \in ambiguous_columns_split(
                             df, target, Without(ambiguous_column_types, u)) :
                  SameSplit(o)
            /\ ~outcome.raised => u \notin NumericOut /\ u \notin CategoricalOut

\* A returned call whose two lists both name the ghost column.
C4_Witness ==
    /\ SplitReturned
    /\ Ghost \in ListedNumeric
    /\ Ghost \in ListedCategorical
    /\ Len(df.columns) >= 2

(***************************************************************************)
(* C5: on a non-empty dataset the call raises the conflict ValueError      *)
(* exactly when some column of the dataset is listed under both numeric    *)
(* and categorical, the target included; a name listed under both that is  *)
(* no column is no conflict.                                               *)
(***************************************************************************)
C5_ConflictIff ==
    (SplitCalled /\ NonEmptyDataset) =>
        (IsError("ValueError", ConflictMsg) <=> Conflict)

\* The column listed twice is the target itself.
C5_Witness ==
    /\ SplitCalled /\ NonEmptyDataset /\ TargetIsColumn
    /\ target.val \in ListedNumeric
    /\ target.val \in ListedCategorical
    /\ IsError("ValueError", ConflictMsg)

(***************************************************************************)
(* C6: an empty dataset given to _ambiguous_columns_split, directly or     *)
(* through all_distributions, raises the empty-dataset ValueError whatever *)
(* the overrides (a conflict included) and the target are, and             *)
(* all_distributions runs no later step.                                   *)
(***************************************************************************)
C6_EmptyRaisesFirst ==
    (op \in {"_ambiguous_columns_split", "all_distributions"} /\ EmptyDataset) =>
        /\ IsError("ValueError", EmptyMsg)
        /\ op = "all_distributions" =>
              outcome.steps = <<"_ambiguous_columns_split">>

\* Columns but no rows, and overrides that conflict.
C6_Witness ==
    /\ op = "all_distributions"
    /\ EmptyDataset /\ Len(df.columns) > 0
    /\ Conflict
    /\ IsError("ValueError", EmptyMsg)

(***************************************************************************)
(* C7: with no overrides a column that is not the target is in the numeric *)
(* output exactly when its dtype is an integer, floating-point, complex or *)
(* boolean kind, and in the categorical output otherwise.                  *)
(***************************************************************************)
C7_DefaultRule ==
    (SplitReturned /\ ListedNumeric = {} /\ ListedCategorical = {}) =>
        \A c \in ColSet(df) \ {target.val} :
            /\ c \in NumericOut <=>
                  df.dtypes[c] \in {"int64", "float64", "complex128", "bool"}
            /\ c \in CategoricalOut <=>
                  df.dtypes[c] \notin {"int64", "float64", "complex128", "bool"}

C9_Overview ==
    op = "dataset_overview" =>
        /\ outcome.raised <=> ~IsDataFrame(df)
        /\ outcome.raised => outcome.error.type = "TypeError"
        /\ ~outcome.raised =>
              /\ DOMAIN outcome.value =
                    {"shape", "columns", "dtypes", "missing_values",
                     "summary_statistics"}
              /\ outcome.value.columns = df.columns
              /\ DOMAIN outcome.value.dtypes = ColSet(df)
              /\ DOMAIN outcome.value.missing_values = ColSet(df)
              /\ (Len(df.columns) = 0 /\ Len(df.rows) = 0) =>
                    /\ outcome.value.shape = <<0, 0>>
                    /\ outcome.value.columns = <<>>
                    /\ DOMAIN outcome.value.dtypes = {}
                    /\ DOMAIN outcome.value.missing_values = {}
                    /\ DOMAIN outcome.value.summary_statistics = {}

\* An overview of two columns, one of them not numeric.
C9_Witness ==
    /\ op = "dataset_overview" /\ ~outcome.raised
    /\ Len(df.columns) >= 2
    /\ \E c \in ColSet(df) : ~IsNumber(df.dtypes[c])
    /\ \E c \in ColSet(df) : outcome.value.missing_values[c] > 0

(***************************************************************************)
(* C10 as stated: summary_statistics has one entry per numeric column of   *)
(* the dataset and none for another column.                                *)
(***************************************************************************)
C10_OnePerNumericColumn ==
    (op = "dataset_overview" /\ ~outcome.raised) =>
        DOMAIN outcome.value.summary_statistics = numeric_cols(df)

(***************************************************************************)
(* C10 as amended: for a dataset with at least one row summary_statistics  *)
(* has one entry per numeric column and none for another column; for a     *)
(* dataset without rows it is empty.  On a non-empty dataset its keys are  *)
(* the columns the classifier puts in numeric by default, target aside.    *)
(***************************************************************************)
C10_SummaryKeys ==
    (op = "dataset_overview" /\ ~outcome.raised) =>
        LET keys == DOMAIN outcome.value.summary_statistics
        IN  /\ Len(df.rows) > 0 => keys = numeric_cols(df)
            /\ Len(df.rows) = 0 => keys = {}
            /\ NonEmptyDataset =>
                  \A t \in ColSet(df) :
                      \A o \in ambiguous_columns_split(df, Str(t), None) :
                          /\ ~o.raised
                          /\ ColSet(o.value.numeric) \ {t} = keys \ {t}

\* An overview of a dataset with rows, a numeric and a boolean column.
C10_Witness ==
    /\ op = "dataset_overview" /\ ~outcome.raised
    /\ Len(df.rows) > 0
    /\ \E c \in ColSet(df) : df.dtypes[c] = "bool"
    /\ DOMAIN outcome.value.summary_statistics # {}

(***************************************************************************)
(* Claims about numeric.                                                   *)
(***************************************************************************)
NumericCalled == op = "numeric"

\* The call passed numeric's input checks.
NumericValidated == NumericCalled /\ IsDataFrame(df) /\ TargetIsColumn

\* C11: numeric raises a TypeError when df is not a dataset or target is not
\* a string, and a ValueError when df is a dataset, target is a string and
\* target is not one of its columns.  The type checks come first: a
\* non-dataset or a non-string target never yields a ValueError, whether or
\* not the target would be found.
C11_NumericValidation ==
    NumericCalled =>
        /\ (~IsDataFrame(df) \/ target.type # "str") =>
               outcome.raised /\ outcome.error.type = "TypeError"
        /\ (IsDataFrame(df) /\ target.type = "str"
                /\ target.val \notin ColSet(df)) =>
               IsError("ValueError", "target not found in DataFrame")

\* A dataset and a target that is neither a string nor a column: TypeError.
C11_Witness ==
    /\ NumericCalled
    /\ IsDataFrame(df)
    /\ Len(df.columns) > 0
    /\ target.type # "str"
    /\ outcome.raised
    /\ outcome.error.type = "TypeError"

FourKeys == {"missing_vals", "box_plot", "distribution", "correlation"}

\* C12 as stated: every call of numeric that passes input validation returns
\* a bundle with exactly the keys missing_vals, box_plot, distribution and
\* correlation, whatever the rows and the other columns of the dataset.
C12_AlwaysFourKeys ==
    NumericValidated =>
        ~outcome.raised /\ DOMAIN outcome.value = FourKeys

\* Every non-target column converts to floating point: it is an integer,
\* floating-point, complex or boolean column, or it has no values.
ConvertsToFloat ==
    \A c \in ColSet(df) \ {target.val} :
        \/ df.dtypes[c] \in {"int64", "float64", "complex128", "bool"}
        \/ \A i \in DOMAIN df.rows : df.rows[i][c] = NaN

\* C12 (amended): a call of numeric that passes input validation, on a
\* dataset whose non-target columns all convert to floating point, returns a
\* bundle with exactly the four keys; this includes a dataset with no rows
\* and a dataset with a single non-target column.
C12_FourKeys ==
    (NumericValidated /\ ConvertsToFloat) =>
        ~outcome.raised /\ DOMAIN outcome.value = FourKeys

\* A single non-target column, with rows: one histogram in the bundle.
C12_Witness ==
    /\ NumericValidated
    /\ ConvertsToFloat
    /\ Len(df.columns) = 2
    /\ Len(df.rows) > 0
    /\ ~outcome.raised
    /\ DOMAIN outcome.value = FourKeys
    /\ Len(outcome.value.distribution) = 1

(***************************************************************************)
(* Claims about categorical_plot.                                          *)
(***************************************************************************)
CategoricalPlotCalled == op = "categorical_plot"

\* No feature list was given, or an empty one.
FeaturesOmitted ==
    categorical_features.kind = "None" \/ Len(categorical_features.items) = 0

NonTargetColumns == Keep(df.columns, ColSet(df) \ {target.val})

\* The features the call is about: the given list, or every non-target
\* column when none was given.
RequestedFeatures ==
    IF FeaturesOmitted THEN NonTargetColumns ELSE categorical_features.items

C14_Validation ==
    CategoricalPlotCalled =>
        /\ ~IsDataFrame(df) =>
               outcome.raised /\ outcome.error.type = "TypeError"
        /\ (NonEmptyDataset /\ TargetIsColumn
                /\ categorical_features.kind \notin {"None", "list"}) =>
               outcome.raised /\ outcome.error.type = "TypeError"
        /\ EmptyDataset =>
               outcome.raised /\ outcome.error.type = "ValueError"
        /\ (NonEmptyDataset /\ target.type = "str"
                /\ target.val \notin ColSet(df)) =>
               outcome.raised /\ outcome.error.type = "ValueError"
        /\ (NonEmptyDataset /\ TargetIsColumn
                /\ categorical_features.kind = "list"
                /\ \E f \in Range(categorical_features.items) :
                       f \notin ColSet(df)) =>
               outcome.raised /\ outcome.error.type = "ValueError"

\* C15: categorical_plot returns an empty list, without raising, when the
\* dataset argument is None, when the dataset is empty, and when neither the
\* target nor the listed feature is a column of the dataset.
C15_EmptyListForBadInput ==
    (/\ CategoricalPlotCalled
     /\ \/ df = NoneObj
        \/ EmptyDataset
        \/ /\ NonEmptyDataset
           /\ target.type = "str"
           /\ target.val \notin ColSet(df)
           /\ categorical_features.kind = "list"
           /\ categorical_features.items # <<>>
           /\ \A f \in Range(categorical_features.items) : f \notin ColSet(df))
    => (~outcome.raised /\ outcome.value = <<>>)

(***************************************************************************)
(* Claims about all_distributions.                                         *)
(***************************************************************************)
AllDistributionsCalled == op = "all_distributions"

C17_InvalidFeaturesIgnored ==
    (/\ AllDistributionsCalled
     /\ NonEmptyDataset
     /\ TargetIsColumn
     /\ categorical_features.kind = "list")
    => \A u \in Range(categorical_features.items) \ ColSet(df) :
          outcome \in
              all_distributions(df, target, categorical_target, max_categories,
                                List(Keep(categorical_features.items,
                                          Range(categorical_features.items) \ {u})),
                                ambiguous_column_types)

\* C18: for every feature of the list, the rows behind the feature's two
\* charts are the rows of the input dataset whose value of the feature is
\* among the max_categories most frequent values of that feature in the
\* input dataset, independently of the other features and of their order.
C18_CapPerFeature ==
    (CategoricalPlotCalled /\ ~outcome.raised) =>
        LET fs == RequestedFeatures
            plots == outcome.value
        IN  \A i \in DOMAIN fs :
              \E top \in top_features(df, fs[i], max_categories) :
                 /\ plots[2 * i - 1].data.rows = RowsIsin(df.rows, fs[i], top)
                 /\ plots[2 * i].data.rows = RowsIsin(df.rows, fs[i], top)

\* C19: _ambiguous_columns_split never returns for a target that is not a
\* column: on a non-empty dataset with conflict-free overrides the call then
\* fails at the column-subset step with a lookup error (KeyError), not with
\* one of the two documented ValueErrors; so every returned view contains
\* the target column, and all_distributions with such a target fails in the
\* split, before numeric and categorical_plot run.
C19_MissingTargetFails ==
    /\ (SplitCalled /\ NonEmptyDataset /\ ~Conflict /\ ~TargetIsColumn) =>
           IsError("KeyError", "not in index")
    /\ SplitReturned =>
           /\ TargetIsColumn
           /\ target.val \in NumericOut
           /\ target.val \in CategoricalOut
    /\ (AllDistributionsCalled /\ NonEmptyDataset /\ ~Conflict
            /\ ~TargetIsColumn) =>
           /\ IsError("KeyError", "not in index")
           /\ outcome.steps = <<"_ambiguous_columns_split">>

\* all_distributions on a dataset with rows and a target it does not have,
\* with overrides that name columns without conflict.
C19_Witness ==
    /\ AllDistributionsCalled
    /\ NonEmptyDataset
    /\ target = Str(Ghost)
    /\ ListedNumeric \cap ColSet(df) # {}
    /\ ~Conflict
    /\ IsError("KeyError", "not in index")
    /\ outcome.steps = <<"_ambiguous_columns_split">>

\* Every non-target column is classified numeric: by its native type, or by
\* an override, and none is listed as categorical.
AllClassifiedNumeric ==
    \A c \in ColSet(df) \ {target.val} :
        /\ c \notin ListedCategorical
        /\ df.dtypes[c] \in {"int64", "float64", "complex128"} \/ c \in ListedNumeric

\* Some split of the dataset has a categorical view with a column other
\* than the target.
CategoricalViewHasFeature ==
    \E s \in ambiguous_columns_split(df, target, ambiguous_column_types) :
        ~s.raised /\ ColSet(s.value.categorical) \ {target.val} # {}

NoFeaturesError ==
    /\ IsError("ValueError", "No categorical features to plot")
    /\ outcome.steps = <<"_ambiguous_columns_split", "numeric", "categorical_plot">>

\* C20 as stated: all_distributions returns a result only when the
\* categorical view has a column other than the target; for a non-empty
\* dataset whose non-target columns are all classified numeric, by native
\* type or by override, and with categorical_features omitted or empty, the
\* call fails with categorical_plot's ValueError for having no categorical
\* features to plot, after numeric has completed.
C20_FailsWithoutCategorical ==
    /\ (AllDistributionsCalled /\ ~outcome.raised) => CategoricalViewHasFeature
    /\ (AllDistributionsCalled /\ NonEmptyDataset /\ TargetIsColumn /\ ~Conflict
            /\ AllClassifiedNumeric /\ FeaturesOmitted) =>
           NoFeaturesError

\* C20 (amended): with categorical_features omitted or empty,
\* all_distributions returns a result only when the categorical view has a
\* column other than the target.  For a non-empty dataset whose non-target
\* columns are all classified numeric and with categorical_features omitted
\* or empty no result is returned: when the non-target columns convert to
\* floating point the call fails with categorical_plot's ValueError for
\* having no categorical features to plot, after numeric has completed;
\* otherwise it fails with that error or earlier, in numeric.
C20_FailsWithoutCategoricalDefault ==
    /\ (AllDistributionsCalled /\ ~outcome.raised /\ FeaturesOmitted) =>
           CategoricalViewHasFeature
    /\ (AllDistributionsCalled /\ NonEmptyDataset /\ TargetIsColumn /\ ~Conflict
            /\ AllClassifiedNumeric /\ FeaturesOmitted) =>
           /\ outcome.raised
           /\ ConvertsToFloat => NoFeaturesError
           /\ ~ConvertsToFloat =>
                  \/ NoFeaturesError
                  \/ outcome.steps = <<"_ambiguous_columns_split", "numeric">>

\* Two columns, the non-target one numeric by override: numeric completes
\* and categorical_plot finds nothing to plot.
C20_Witness ==
    /\ AllDistributionsCalled
    /\ NonEmptyDataset
    /\ TargetIsColumn
    /\ Len(df.columns) >= 2
    /\ AllClassifiedNumeric
    /\ ListedNumeric \cap (ColSet(df) \ {target.val}) # {}
    /\ FeaturesOmitted
    /\ NoFeaturesError

====
